---- MODULE Spec2Model ----
(***************************************************************************)
(* RUFF (src/main.go): a pop-up HTTP server that offers one file for       *)
(* download, or an upload form, and shuts itself down afterwards.          *)
(*                                                                         *)
(* Processes of the model:                                                 *)
(*   main                 the goroutine running main()                     *)
(*   handler i            the goroutine net/http runs for request i        *)
(*   shutdown goroutine i the `go shutdown(server)` started by handler i   *)
(* Requests are numbered in their order of arrival.                        *)
(***************************************************************************)
EXTENDS Integers, Sequences, FiniteSets

\* ---- bounds of the model ----
MaxRequests == 2      \* requests that reach the process
MaxCount    == 2      \* largest positive value given to -count
MaxFiles    == 2      \* file parts in one multipart POST

Requests == 1..MaxRequests
Names    == {"a", "b"}                 \* declared file names of uploaded parts
Absent   == [req |-> 0, full |-> FALSE]

VARIABLES
    conf,       \* Config: Downloads, Uploading, Multiple, FilePath
    mainPc,     \* position of main()
    exitCode,   \* -1 while the process runs, else its exit code
    listener,   \* "none", "open" (accepting), "closed" (server.Shutdown called)
    downloads,  \* the counter captured by the download handler
    req,        \* per request: handler position, route/method, response, register
    sd,         \* per request: position of the shutdown goroutine it started
    disk,       \* working directory: name -> the request whose part it holds
    last        \* the multipart form read by the most recent POST handler

vars == <<conf, mainPc, exitCode, listener, downloads, req, sd, disk, last>>

NoReq == [pc |-> "new", kind |-> "none", resp |-> "none", tmp |-> 0, late |-> FALSE]
NoForm == [req |-> 0, files |-> <<>>, failAt |-> 0]

\* ---- getConfig ----
\* The command lines. The file argument is not read with -upload, nor is
\* -multiple without it: there one value of each stands for all. Nor does
\* setupUpload read -count: -1 and one limit above 1 stand for all.
Configs ==
    {c \in [Downloads : {-1} \cup (1..MaxCount),
            Uploading : BOOLEAN,
            Multiple  : BOOLEAN,
            FilePath  : {"", "f"}] :
        /\ c.Uploading => c.FilePath = "" /\ c.Downloads \in {-1, MaxCount}
        /\ ~c.Uploading => c.Multiple}

ConfigErrorNever(c) == FALSE
ConfigError(c) == c.FilePath = "" /\ ~c.Uploading

Init ==
    /\ conf \in Configs
    /\ mainPc = "getConfig"
    /\ exitCode = -1
    /\ listener = "none"
    /\ downloads = conf.Downloads
    /\ req = [i \in Requests |-> NoReq]
    /\ sd = [i \in Requests |-> "none"]
    /\ disk = [n \in Names |-> Absent]
    /\ last = NoForm

\* ---- helpers over the state ----
InFlight(i)   == req[i].pc \notin {"new", "done"}
Triggered     == {i \in Requests : sd[i] # "none"}
Running       == mainPc # "exited"

\* os.Exit / return from main: the process is gone, its connections are cut.
Killed(r) == IF r.pc \notin {"new", "done"} /\ r.resp = "none"
             THEN [r EXCEPT !.resp = "aborted"] ELSE r

\* ---- main ----
GetConfigFail ==
    /\ mainPc = "getConfig" /\ ConfigError(conf)
    /\ mainPc' = "exited" /\ exitCode' = 1
    /\ UNCHANGED <<conf, listener, downloads, req, sd, disk, last>>

GetConfigOk ==
    /\ mainPc = "getConfig" /\ ~ConfigError(conf)
    /\ mainPc' = "setup"
    /\ UNCHANGED <<conf, exitCode, listener, downloads, req, sd, disk, last>>

setupUpload ==
    /\ mainPc = "setup" /\ conf.Uploading
    /\ mainPc' = "getIP"
    /\ UNCHANGED <<conf, exitCode, listener, downloads, req, sd, disk, last>>

setupDownload ==
    /\ mainPc = "setup" /\ ~conf.Uploading
    /\ downloads' = conf.Downloads
    /\ mainPc' = "getIP"
    /\ UNCHANGED <<conf, exitCode, listener, req, sd, disk, last>>

getIP ==
    /\ mainPc = "getIP"
    /\ \E ok \in BOOLEAN :
         IF ok THEN mainPc' = "listen" /\ exitCode' = exitCode
               ELSE mainPc' = "exited" /\ exitCode' = 1
    /\ UNCHANGED <<conf, listener, downloads, req, sd, disk, last>>

ListenAndServe ==
    /\ mainPc = "listen"
    /\ \E ok \in BOOLEAN :
         IF ok THEN mainPc' = "serving" /\ listener' = "open" /\ exitCode' = exitCode
               ELSE mainPc' = "exited" /\ exitCode' = 1 /\ listener' = listener
    /\ UNCHANGED <<conf, downloads, req, sd, disk, last>>

ServeReturnEarly ==
    /\ mainPc = "serving"
    /\ mainPc' = "select"
    /\ UNCHANGED <<conf, exitCode, listener, downloads, req, sd, disk, last>>

\* Serve returns http.ErrServerClosed once server.Shutdown closed the listener.
ServeReturn ==
    /\ mainPc = "serving" /\ listener = "closed"
    /\ mainPc' = "select"
    /\ UNCHANGED <<conf, exitCode, listener, downloads, req, sd, disk, last>>

AfterSelectLoop == "select"
AfterSelect == "return"

\* case <-done: the rendezvous with the sender of shutdown goroutine g.
RecvDone(g) ==
    /\ mainPc = "select" /\ sd[g] = "send"
    /\ sd' = [sd EXCEPT ![g] = "sent"]
    /\ mainPc' = AfterSelect
    /\ UNCHANGED <<conf, exitCode, listener, downloads, req, disk, last>>

TimerNever == FALSE
TimerFires == mainPc = "select"

\* case <-time.After(3 * time.Second)
Timeout ==
    /\ TimerFires
    /\ mainPc' = "return"
    /\ UNCHANGED <<conf, exitCode, listener, downloads, req, sd, disk, last>>

MainReturn ==
    /\ mainPc = "return"
    /\ mainPc' = "exited" /\ exitCode' = 0
    /\ req' = [i \in Requests |-> Killed(req[i])]
    /\ UNCHANGED <<conf, listener, downloads, sd, disk, last>>

\* ---- shutdown(server) ----
ShutdownBeginKeepsListening(g) ==
    /\ Running /\ sd[g] = "start"
    /\ sd' = [sd EXCEPT ![g] = "wait"]
    /\ UNCHANGED <<conf, mainPc, exitCode, listener, downloads, req, disk, last>>

\* server.Shutdown: close the listener ...
ShutdownBegin(g) ==
    /\ Running /\ sd[g] = "start"
    /\ listener' = "closed"
    /\ sd' = [sd EXCEPT ![g] = "wait"]
    /\ UNCHANGED <<conf, mainPc, exitCode, downloads, req, disk, last>>

ShutdownWaitNoDrain(g) ==
    /\ Running /\ sd[g] = "wait"
    /\ sd' = [sd EXCEPT ![g] = "send"]
    /\ UNCHANGED <<conf, mainPc, exitCode, listener, downloads, req, disk, last>>

\* ... and return when no connection is serving a request any more.
ShutdownWait(g) ==
    /\ Running /\ sd[g] = "wait"
    /\ \A i \in Requests : ~InFlight(i)
    /\ sd' = [sd EXCEPT ![g] = "send"]
    /\ UNCHANGED <<conf, mainPc, exitCode, listener, downloads, req, disk, last>>

\* ---- a request reaches the process ----
\* Successful file responses fully handled so far.
Served == {i \in Requests : req[i].pc = "done" /\ req[i].kind = "file" /\ req[i].resp = "200"}

Routes == IF conf.Uploading THEN {"GET", "POST"} ELSE {"file", "root"}

FirstPc(kind) == CASE kind = "file" -> "serve"
                   [] kind = "root" -> "redirect"
                   [] kind = "GET"  -> "form"
                   [] kind = "POST" -> "post"

Arrive(i) ==
    /\ mainPc \in {"serving", "select", "return"}
    /\ req[i].pc = "new"
    /\ \A j \in Requests : j < i => req[j].pc # "new"
    /\ \E kind \in Routes :
         LET isLate == ~conf.Uploading /\ conf.Downloads > 0
                        /\ Cardinality(Served) >= conf.Downloads
         IN  req' = [req EXCEPT ![i] =
                IF listener = "open"
                THEN [pc |-> FirstPc(kind), kind |-> kind, resp |-> "none",
                      tmp |-> 0, late |-> isLate]
                ELSE [pc |-> "done", kind |-> "none", resp |-> "refused",
                      tmp |-> 0, late |-> isLate]]
    /\ UNCHANGED <<conf, mainPc, exitCode, listener, downloads, sd, disk, last>>

\* ---- setupDownload: the two handlers ----
RedirectCounted(i) ==
    /\ Running /\ req[i].pc = "redirect"
    /\ req' = [req EXCEPT ![i].pc = "done", ![i].resp = "302"]
    /\ downloads' = downloads - 1
    /\ UNCHANGED <<conf, mainPc, exitCode, listener, sd, disk, last>>

\* http.RedirectHandler("/"+conf.FileName, http.StatusFound)
Redirect(i) ==
    /\ Running /\ req[i].pc = "redirect"
    /\ req' = [req EXCEPT ![i].pc = "done", ![i].resp = "302"]
    /\ UNCHANGED <<conf, mainPc, exitCode, listener, downloads, sd, disk, last>>

\* http.ServeFile(w, r, conf.FilePath): the file is sent, or an error status is.
ServeFile(i) ==
    /\ Running /\ req[i].pc = "serve"
    /\ \E ok \in BOOLEAN :
         req' = [req EXCEPT ![i].pc = "load",
                            ![i].resp = IF ok THEN "200" ELSE "err"]
    /\ UNCHANGED <<conf, mainPc, exitCode, listener, downloads, sd, disk, last>>

\* downloads-- is an unsynchronised read-modify-write of the shared counter:
\* the load ...
DecLoad(i) ==
    /\ Running /\ req[i].pc = "load"
    /\ req' = [req EXCEPT ![i].pc = "store", ![i].tmp = downloads]
    /\ UNCHANGED <<conf, mainPc, exitCode, listener, downloads, sd, disk, last>>

\* ... and the store.
DecStore(i) ==
    /\ Running /\ req[i].pc = "store"
    /\ downloads' = req[i].tmp - 1
    /\ req' = [req EXCEPT ![i].pc = "test", ![i].tmp = req[i].tmp - 1]
    /\ UNCHANGED <<conf, mainPc, exitCode, listener, sd, disk, last>>

ExhaustedLeq(v) == v <= 0
Exhausted(v) == v = 0

\* if downloads == 0 { go shutdown(server) }: the value compared is the
\* counter as re-read from memory, or the one the handler just computed.
TestZero(i) ==
    /\ Running /\ req[i].pc = "test"
    /\ \E v \in {downloads, req[i].tmp} :
         IF Exhausted(v)
         THEN /\ sd' = [sd EXCEPT ![i] = "start"]
              /\ req' = [req EXCEPT ![i].pc = "ret", ![i].tmp = 0]
         ELSE /\ sd' = sd
              /\ req' = [req EXCEPT ![i].pc = "done", ![i].tmp = 0]
    /\ UNCHANGED <<conf, mainPc, exitCode, listener, downloads, disk, last>>

CallReturns(i) == sd[i] = "sent"
GoReturns(i) == TRUE

\* go shutdown(server) starts a goroutine and returns at once: the handler
\* that started it returns without waiting for it.
HandlerReturn(i) ==
    /\ Running /\ req[i].pc = "ret"
    /\ GoReturns(i)
    /\ req' = [req EXCEPT ![i].pc = "done"]
    /\ UNCHANGED <<conf, mainPc, exitCode, listener, downloads, sd, disk, last>>

\* ---- setupUpload: the handler ----
\* r.Method != http.MethodPost: the upload form.
UploadForm(i) ==
    /\ Running /\ req[i].pc = "form"
    /\ req' = [req EXCEPT ![i].pc = "done", ![i].resp = "form"]
    /\ UNCHANGED <<conf, mainPc, exitCode, listener, downloads, sd, disk, last>>

TooManyOffByOne(n, multiple) == n > 1 /\ ~multiple
TooMany(n, multiple) == n > 0 /\ ~multiple

CollectNeedsFile(parts, files, multiple) ==
    [ok |-> parts # <<>> /\ ~(Len(parts) > 1 /\ ~multiple), files |-> parts]

\* The loop over r.MultipartForm.File: the headers collected, or the rejection.
RECURSIVE Collect(_, _, _)
Collect(parts, files, multiple) ==
    IF parts = <<>> THEN [ok |-> TRUE, files |-> files]
    ELSE IF TooMany(Len(files), multiple) THEN [ok |-> FALSE, files |-> files]
    ELSE Collect(Tail(parts), Append(files, Head(parts)), multiple)

\* saveFile(header): header.Open and os.Create(header.Filename) leave the
\* directory as it is when they fail; a failing io.Copy leaves a cut file.
saveFile(d, name, who, outcome) ==
    CASE outcome = "ok"     -> [d EXCEPT ![name] = [req |-> who, full |-> TRUE]]
      [] outcome = "copy"   -> [d EXCEPT ![name] = [req |-> who, full |-> FALSE]]
      [] outcome = "open"   -> d
      [] outcome = "create" -> d

NoFailure == [at |-> 0, kind |-> "ok"]

\* Where and how saving the collected files fails, if it does.
Failures(files) ==
    {NoFailure} \cup [at : 1..Len(files), kind : {"open", "create", "copy"}]

\* for i := range files { err := saveFile(files[i]); if err != nil { return } }
RECURSIVE SaveAll(_, _, _, _, _)
SaveAll(files, k, d, who, fail) ==
    IF k > Len(files) THEN [err |-> FALSE, disk |-> d]
    ELSE IF k = fail.at THEN [err |-> TRUE, disk |-> saveFile(d, files[k], who, fail.kind)]
    ELSE SaveAll(files, k + 1, saveFile(d, files[k], who, "ok"), who, fail)

Forms == UNION {[1..n -> Names] : n \in 0..MaxFiles}

\* A POST whose body is no multipart form: r.MultipartForm is nil and the
\* handler panics; net/http recovers and drops the connection.
UploadPanic(i) ==
    /\ Running /\ req[i].pc = "post"
    /\ req' = [req EXCEPT ![i].pc = "done", ![i].resp = "panic"]
    /\ UNCHANGED <<conf, mainPc, exitCode, listener, downloads, sd, disk, last>>

UploadPost(i) ==
    /\ Running /\ req[i].pc = "post"
    /\ \E parts \in Forms :
         LET c == Collect(parts, <<>>, conf.Multiple)
         IN  IF ~c.ok
             THEN /\ req' = [req EXCEPT ![i].pc = "done", ![i].resp = "error"]
                  /\ last' = [req |-> i, files |-> parts, failAt |-> 0]
                  /\ UNCHANGED <<disk, sd>>
             ELSE \E fail \in Failures(c.files) :
                  LET s == SaveAll(c.files, 1, disk, i, fail)
                  IN  /\ disk' = s.disk
                      /\ last' = [req |-> i, files |-> parts, failAt |-> fail.at]
                      /\ IF s.err
                         THEN /\ req' = [req EXCEPT ![i].pc = "done", ![i].resp = "error"]
                              /\ sd' = sd
                         ELSE /\ req' = [req EXCEPT ![i].pc = "ret", ![i].resp = "success"]
                              /\ sd' = [sd EXCEPT ![i] = "start"]
    /\ UNCHANGED <<conf, mainPc, exitCode, listener, downloads>>

\* ---- the system ----
Handler(i) ==
    \/ Redirect(i) \/ ServeFile(i) \/ DecLoad(i) \/ DecStore(i) \/ TestZero(i)
    \/ UploadForm(i) \/ UploadPanic(i) \/ UploadPost(i) \/ HandlerReturn(i)

Main ==
    \/ GetConfigFail \/ GetConfigOk \/ setupUpload \/ setupDownload
    \/ getIP \/ ListenAndServe \/ ServeReturn \/ Timeout \/ MainReturn

shutdown(g) == ShutdownBegin(g) \/ ShutdownWait(g) \/ RecvDone(g)

Next ==
    \/ Main
    \/ \E i \in Requests : Arrive(i)
    \/ \E i \in Requests : Handler(i)
    \/ \E g \in Requests : shutdown(g)

Spec == Init /\ [][Next]_vars

\* Fairness: while main or a shutdown goroutine can take a step, one of them
\* eventually does (the Go scheduler runs them, the 3-second timer fires).
\* Nothing is assumed of the handlers: a response may stay in flight for ever.
LiveSpec ==
    /\ Spec
    /\ WF_vars(Main \/ \E g \in Requests : shutdown(g))

\* ---- properties ----
Download == ~conf.Uploading
Sent200  == {i \in Requests : req[i].kind = "file" /\ req[i].resp = "200"}
Sent     == {g \in Requests : sd[g] = "sent"}

\* C1: in Download mode with a limit N > 0, shutdown is not triggered before
\* N successful file responses were served, and once N successful responses
\* are complete it has been triggered.
C1_ExactlyNThenShutdown ==
    (Download /\ conf.Downloads > 0) =>
        /\ Triggered # {} => Cardinality(Sent200) >= conf.Downloads
        /\ Cardinality(Served) >= conf.Downloads => Triggered # {}

\* C2: in Download mode with the limit -1 no request ever triggers shutdown:
\* no shutdown goroutine is started and the listener is never closed.
C2_UnlimitedNeverShutsDown ==
    (Download /\ conf.Downloads = -1) =>
        /\ Triggered = {}
        /\ listener # "closed"
        /\ mainPc \notin {"select", "return"}

C2_Witness ==
    /\ Download /\ conf.Downloads = -1 /\ listener = "open"
    /\ \A i \in Requests : req[i].pc = "done" /\ req[i].kind = "file"
    /\ \E i \in Requests : req[i].resp = "200"
    /\ \E i \in Requests : req[i].resp = "err"

\* C3: the send on the done channel completes at most once in a process,
\* however many shutdown goroutines reach it.
C3_DoneSentAtMostOnce == Cardinality(Sent) <= 1

C3_Witness ==
    \E g, h \in Requests : g # h /\ sd[g] = "sent" /\ sd[h] = "send"

\* C4: the shutdown routine is started at most once in a process.
C4_ShutdownStartedAtMostOnce == Cardinality(Triggered) <= 1

\* The step in which handler i finishes reading and processing a POSTed form.
Posted(i) == req[i].pc = "post" /\ req'[i].pc \in {"ret", "done"} /\ last'.req = i

\* C5: in Upload mode without -multiple, a POST with two or more file parts
\* writes nothing, is answered with the error page, leaves the counter alone
\* and starts no shutdown.
C5_BatchRejectedWhole ==
    [][\A i \in Requests :
         (conf.Uploading /\ ~conf.Multiple /\ Posted(i) /\ Len(last'.files) >= 2)
         => /\ disk' = disk
            /\ req'[i].resp = "error"
            /\ downloads' = downloads
            /\ sd' = sd /\ listener' = listener]_vars

C5_Witness ==
    /\ conf.Uploading /\ ~conf.Multiple
    /\ last.req # 0 /\ Len(last.files) >= 2
    /\ req[last.req].resp = "error"

Uploaded == {i \in Requests : req[i].kind = "POST" /\ req[i].resp = "success"}

\* C6: in Upload mode with -multiple, a POST of k >= 1 file parts that all
\* save leaves every part on disk under its declared name and decrements the
\* counter by exactly one.
C6_BatchSavedCountsOnce ==
    [][\A i \in Requests :
         (conf.Uploading /\ conf.Multiple /\ Posted(i)
            /\ Len(last'.files) >= 1 /\ req'[i].resp = "success")
         => /\ \A k \in 1..Len(last'.files) :
                 disk'[last'.files[k]] = [req |-> i, full |-> TRUE]
            /\ downloads' = downloads - 1]_vars

\* C7: in Upload mode a successful POST triggers shutdown only when it
\* exhausts the limit: never with the limit -1, and with a limit N not
\* before N POSTs have succeeded.
C7_UploadShutdownOnlyWhenExhausted ==
    (conf.Uploading /\ Triggered # {}) =>
        /\ conf.Downloads # -1
        /\ Cardinality(Uploaded) >= conf.Downloads

\* C8: in Download mode a file-route request answered with an error status
\* is not counted: its handler neither changes the counter nor triggers
\* shutdown.
C8_FailedDownloadNotCounted ==
    [][\A i \in Requests :
         (Download /\ req[i].kind = "file" /\ req[i].resp = "err" /\ req'[i] # req[i])
         => downloads' = downloads /\ sd'[i] = "none"]_vars

\* C9: once shutdown has been triggered the process eventually exits, even
\* if a response stays in flight and the graceful close never completes.
C9_TriggeredLeadsToExit == (Triggered # {}) ~> (mainPc = "exited")

C9_Witness ==
    /\ mainPc = "exited" /\ exitCode = 0 /\ Triggered # {} /\ Sent = {}
    /\ \E i \in Requests : InFlight(i)

\* C10 (as stated): in Download mode with a limit N > 0, a file request that
\* arrives after the N-th response ends up served successfully or refused.
C10_LateServedOrRefused ==
    (Download /\ conf.Downloads > 0 /\ mainPc = "exited") =>
        \A i \in Requests :
            (req[i].late /\ req[i].kind \in {"file", "none"})
                => req[i].resp \in {"200", "refused"}

\* C10 (amended): once shutdown has been triggered, such a request eventually
\* has an outcome: the file, an error status, a refused connection, or the
\* connection cut by the exit of the process.
LatePending == {i \in Requests : req[i].late /\ req[i].kind \in {"file", "none"}
                                   /\ req[i].resp = "none"}

C10_LateGetsOutcome == (LatePending # {} /\ Triggered # {}) ~> (LatePending = {})

C10_Witness ==
    /\ Download /\ conf.Downloads > 0 /\ mainPc = "exited"
    /\ \E i \in Requests : req[i].late /\ req[i].kind = "file" /\ req[i].resp = "aborted"

\* C11: a startup failure (no file to download, no local address) ends the
\* process with exit code 1 before it listens: no request is handled, the
\* counter keeps its initial value and no shutdown is started.
C11_StartupFailureExitsBeforeListening ==
    /\ (conf.FilePath = "" /\ ~conf.Uploading /\ mainPc # "getConfig")
           => (mainPc = "exited" /\ exitCode = 1)
    /\ exitCode = 1 =>
           /\ mainPc = "exited" /\ listener = "none"
           /\ \A i \in Requests : req[i] = NoReq
           /\ downloads = conf.Downloads
           /\ Triggered = {}

C11_Witness == exitCode = 1 /\ conf.FilePath = "" /\ ~conf.Uploading

\* File-route handlers that have finished their decrement.
Counted == {i \in Requests : req[i].kind = "file" /\ req[i].pc \in {"test", "ret", "done"}}

\* C12: no decrement is lost: with a limit N > 0, whenever no handler is in
\* the middle of its decrement, the counter is N minus the number of
\* file-route handlers that have decremented.
C12_NoLostDecrement ==
    (Download /\ conf.Downloads > 0
       /\ \A i \in Requests : req[i].pc \notin {"store", "test"})
    => downloads = conf.Downloads - Cardinality(Counted)

\* C13: the completion signal is sent only after the graceful close: whenever
\* it has been sent, the listener is closed and no handler is in flight.
C13_SignalOnlyAfterGracefulClose ==
    Sent # {} => (listener = "closed" /\ \A i \in Requests : ~InFlight(i))

C13_Witness ==
    \E g, i \in Requests :
        /\ g # i /\ sd[g] = "sent"
        /\ req[i].pc = "done" /\ req[i].resp \notin {"none", "refused"}

C15_PartialBatchKeepsEarlierFiles ==
    [][\A i \in Requests :
         (conf.Uploading /\ Posted(i) /\ last'.failAt > 0)
         => LET files == last'.files
                at    == last'.failAt
            IN  /\ \A k \in 1..(at - 1) : disk'[files[k]] = [req |-> i, full |-> TRUE]
                /\ \A k \in (at + 1)..Len(files) :
                       (\A j \in 1..at : files[j] # files[k])
                           => disk'[files[k]] = disk[files[k]]
                /\ req'[i].resp = "error"
                /\ downloads' = downloads
                /\ sd' = sd]_vars

\* C16: with the limit -1, completed downloads leave the counter at -1.
C16_SentinelNotDecremented ==
    (Download /\ conf.Downloads = -1) => downloads = -1

\* C17: a request that is no transfer (the upload form, the redirect to the
\* file route) leaves the counter, the disk and the listener as they are and
\* starts no shutdown.
C17_NonTransferLeavesState ==
    [][\A i \in Requests :
         (req[i].pc \in {"form", "redirect"} /\ req'[i] # req[i])
         => /\ downloads' = downloads
            /\ sd' = sd
            /\ disk' = disk
            /\ listener' = listener
            /\ req'[i].resp \in {"form", "302", "aborted"}]_vars

C17_Witness ==
    \E i \in Requests : req[i].kind = "root" /\ req[i].pc = "done" /\ req[i].resp = "302"

\* C18: in Download mode with a limit N > 0 the counter is never negative.
C18_CounterNeverNegative ==
    (Download /\ conf.Downloads > 0) => downloads >= 0

\* C19 (as stated): in Download mode with a limit N > 0 the process does not
\* exit before N file-route handlers have completed.
C19_ExitAfterNCompleted ==
    (Download /\ conf.Downloads > 0 /\ mainPc = "exited" /\ exitCode = 0)
    => Cardinality({i \in Requests : req[i].kind = "file" /\ req[i].pc = "done"})
           >= conf.Downloads

\* C19 (amended): once it listens, main leaves ListenAndServe and exits only
\* after shutdown was triggered and closed the listener; in Download mode
\* with a limit N > 0, N file-route handlers have then sent their response
\* and decremented the counter.
C19_ExitOnlyAfterShutdown ==
    /\ (mainPc \in {"select", "return"} \/ (mainPc = "exited" /\ exitCode = 0))
           => (Triggered # {} /\ listener = "closed")
    /\ (Download /\ conf.Downloads > 0 /\ mainPc = "exited" /\ exitCode = 0)
           => Cardinality(Counted) >= conf.Downloads

C19_Witness ==
    /\ Download /\ conf.Downloads > 0 /\ mainPc = "exited" /\ exitCode = 0
    /\ \E i \in Requests : req[i].kind = "file" /\ req[i].pc \in {"test", "ret"}

\* C20: in Upload mode a parsed multipart POST without any file part writes
\* nothing, is answered with the success page and starts the shutdown.
C20_EmptyBatchCountsAsTransfer ==
    [][\A i \in Requests :
         (conf.Uploading /\ Posted(i) /\ last'.files = <<>>)
         => /\ disk' = disk
            /\ req'[i].resp = "success"
            /\ sd[i] = "none" /\ sd'[i] = "start"]_vars

C20_Witness ==
    /\ conf.Uploading /\ last.req # 0 /\ last.files = <<>>
    /\ req[last.req].resp = "success" /\ sd[last.req] # "none"

====
